---- MODULE Spec2Model ----
(***************************************************************************)
(* Model of the live-data pipeline of the ECG dashboard:                   *)
(*   - the useWebSocket hook (connection manager): its React state, its    *)
(*     two refs, the sockets it has created and the timers it has set;     *)
(*   - the ECGMonitor view that consumes the hook: rolling history and     *)
(*     alerts, recomputed by an effect keyed on the hook's data;           *)
(*   - analyzeHealthData, the alert evaluator.                             *)
(* Temperatures are in tenths of a degree Celsius (37.5 is 375).           *)
(***************************************************************************)
EXTENDS Integers, Sequences, FiniteSets, Bags, TLC

VARIABLES
    phase,                \* "init" (rendered, effect not yet run), "mounted", "unmounted"
    url,                  \* the url argument of the latest render
    data,                 \* useState: latest decoded reading, or Null
    connectionStatus,     \* useState: "connecting" | "connected" | "disconnected"
    error,                \* useState: error message, or NoError
    sockets,              \* bag of the WebSockets created by connect() that can still
                          \* matter: [readyState, url, current]; current marks the one
                          \* ws.current refers to. A closed socket that ws.current no
                          \* longer refers to delivers no more events and is dropped.
    timers,               \* bag of the pending timeouts set by onclose: [url, ref]; url
                          \* is the url of the connect() the timeout will call, ref marks
                          \* the one whose id reconnectTimeoutRef.current holds
    dataChanged,          \* data differs from the value the ECGMonitor effect last saw
    ecgHistory,           \* ECGMonitor useState: rolling history
    alerts,               \* ECGMonitor useState: displayed alerts
    lastEvent,            \* history variable: the operation that produced this state,
                          \* [op, arg]; arg is the kind of text of a message, "-"
                          \* for the other operations
    statusCell,           \* ECGHistory: the Status cell rendered for a reading,
                          \* [className, text], or NoCell before the row is rendered
    autoAnalyze,          \* GeminiPredictor prop
    predictions,          \* GeminiPredictor useState: list of predictions
    isLoading,            \* GeminiPredictor useState
    predictorError,       \* GeminiPredictor useState error: message, or NoError
    calls                 \* the handleAnalyze calls so far, oldest first:
                          \* [id, state, text]; state is "pending" while the call
                          \* awaits generateHealthPrediction, then "resolved" or
                          \* "rejected"; text is what the API call settled with

vars == <<phase, url, data, connectionStatus, error, sockets, timers,
          dataChanged, ecgHistory, alerts, lastEvent,
          statusCell, autoAnalyze, predictions, isLoading, predictorError, calls>>

(***************************************************************************)
(* Bounds of the model.                                                    *)
(***************************************************************************)
\* Sockets that are not closed, at any one time.
MaxSockets == 2
\* Pending timeouts, at any one time.
MaxTimers == 1
\* Readings in the monitor view's history after which the feed sends no more
\* readings (it may still send other text).
MaxFeed == 1

(***************************************************************************)
(* Values.                                                                 *)
(***************************************************************************)
Null == [kind |-> "null"]
NoError == "null"

GoodUrls == {"wss://a", "wss://b"}
\* A url the WebSocket constructor rejects (SyntaxError): not a ws/wss url.
BadUrls == {"bad"}
Urls == GoodUrls \cup BadUrls

\* Size of the rolling history.
HistoryLimit == 50

Reading(b, t) == [kind |-> "object", bpm |-> b, temperature |-> t]

\* Readings the feed sends in the connection specification.
FeedReadings == {Reading(70, 365), Reading(130, 380)}

\* Raw message payloads: the JSON text of a reading, the JSON text "null",
\* and text that is not JSON.
Payloads == {[text |-> "json", value |-> r] : r \in FeedReadings}
            \cup {[text |-> "json", value |-> Null]}
            \cup {[text |-> "garbage", value |-> Null]}

\* JSON.parse: throws on text that is not JSON, else returns the value.
JSONparse(p) == IF p.text = "json" THEN [ok |-> TRUE, value |-> p.value]
                ELSE [ok |-> FALSE, value |-> Null]

(***************************************************************************)
(* analyzeHealthData                                                       *)
(***************************************************************************)
Alert(type, severity) == [type |-> type, severity |-> severity]

\* analyzeHealthData with bpm >= 120 for the high tachycardia severity.
analyzeHealthData_Tachy120(reading) ==
    LET a1 == IF reading.bpm > 100
              THEN <<Alert("tachycardia", IF reading.bpm >= 120 THEN "high" ELSE "medium")>>
              ELSE <<>>
        a2 == IF reading.bpm < 60
              THEN Append(a1, Alert("bradycardia", IF reading.bpm < 40 THEN "high" ELSE "medium"))
              ELSE a1
        a3 == IF reading.temperature > 375
              THEN Append(a2, Alert("fever", IF reading.temperature > 390 THEN "high" ELSE "medium"))
              ELSE a2
    IN IF Len(a3) = 0 THEN <<Alert("normal", "low")>> ELSE a3

\* analyzeHealthData with bpm <= 40 for the high bradycardia severity.
analyzeHealthData_Brady40(reading) ==
    LET a1 == IF reading.bpm > 100
              THEN <<Alert("tachycardia", IF reading.bpm > 120 THEN "high" ELSE "medium")>>
              ELSE <<>>
        a2 == IF reading.bpm < 60
              THEN Append(a1, Alert("bradycardia", IF reading.bpm <= 40 THEN "high" ELSE "medium"))
              ELSE a1
        a3 == IF reading.temperature > 375
              THEN Append(a2, Alert("fever", IF reading.temperature > 390 THEN "high" ELSE "medium"))
              ELSE a2
    IN IF Len(a3) = 0 THEN <<Alert("normal", "low")>> ELSE a3

\* analyzeHealthData with temperature >= 39 for the high fever severity.
analyzeHealthData_Fever39(reading) ==
    LET a1 == IF reading.bpm > 100
              THEN <<Alert("tachycardia", IF reading.bpm > 120 THEN "high" ELSE "medium")>>
              ELSE <<>>
        a2 == IF reading.bpm < 60
              THEN Append(a1, Alert("bradycardia", IF reading.bpm < 40 THEN "high" ELSE "medium"))
              ELSE a1
        a3 == IF reading.temperature > 375
              THEN Append(a2, Alert("fever", IF reading.temperature >= 390 THEN "high" ELSE "medium"))
              ELSE a2
    IN IF Len(a3) = 0 THEN <<Alert("normal", "low")>> ELSE a3

\* analyzeHealthData with bpm <= 60 for bradycardia.
analyzeHealthData_Brady60(reading) ==
    LET a1 == IF reading.bpm > 100
              THEN <<Alert("tachycardia", IF reading.bpm > 120 THEN "high" ELSE "medium")>>
              ELSE <<>>
        a2 == IF reading.bpm <= 60
              THEN Append(a1, Alert("bradycardia", IF reading.bpm < 40 THEN "high" ELSE "medium"))
              ELSE a1
        a3 == IF reading.temperature > 375
              THEN Append(a2, Alert("fever", IF reading.temperature > 390 THEN "high" ELSE "medium"))
              ELSE a2
    IN IF Len(a3) = 0 THEN <<Alert("normal", "low")>> ELSE a3

\* analyzeHealthData with the normal alert decided before the fever check.
analyzeHealthData_NormalEarly(reading) ==
    LET a1 == IF reading.bpm > 100
              THEN <<Alert("tachycardia", IF reading.bpm > 120 THEN "high" ELSE "medium")>>
              ELSE <<>>
        a2 == IF reading.bpm < 60
              THEN Append(a1, Alert("bradycardia", IF reading.bpm < 40 THEN "high" ELSE "medium"))
              ELSE a1
        a3 == IF Len(a2) = 0 THEN <<Alert("normal", "low")>> ELSE a2
    IN IF reading.temperature > 375
       THEN Append(a3, Alert("fever", IF reading.temperature > 390 THEN "high" ELSE "medium"))
       ELSE a3

\* analyzeHealthData with the fever check before the heart-rate checks.
analyzeHealthData_FeverFirst(reading) ==
    LET a1 == IF reading.temperature > 375
              THEN <<Alert("fever", IF reading.temperature > 390 THEN "high" ELSE "medium")>>
              ELSE <<>>
        a2 == IF reading.bpm > 100
              THEN Append(a1, Alert("tachycardia", IF reading.bpm > 120 THEN "high" ELSE "medium"))
              ELSE a1
        a3 == IF reading.bpm < 60
              THEN Append(a2, Alert("bradycardia", IF reading.bpm < 40 THEN "high" ELSE "medium"))
              ELSE a2
    IN IF Len(a3) = 0 THEN <<Alert("normal", "low")>> ELSE a3

\* analyzeHealthData
analyzeHealthData(reading) ==
    LET a1 == IF reading.bpm > 100
              THEN <<Alert("tachycardia", IF reading.bpm > 120 THEN "high" ELSE "medium")>>
              ELSE <<>>
        a2 == IF reading.bpm < 60
              THEN Append(a1, Alert("bradycardia", IF reading.bpm < 40 THEN "high" ELSE "medium"))
              ELSE a1
        a3 == IF reading.temperature > 375
              THEN Append(a2, Alert("fever", IF reading.temperature > 390 THEN "high" ELSE "medium"))
              ELSE a2
    IN IF Len(a3) = 0 THEN <<Alert("normal", "low")>> ELSE a3

(***************************************************************************)
(* The hook's state as one record, so that handlers compose.               *)
(***************************************************************************)
Hook == [data |-> data, connectionStatus |-> connectionStatus, error |-> error,
         sockets |-> sockets, timers |-> timers, dataChanged |-> dataChanged]

SetHook(h) ==
    /\ data' = h.data
    /\ connectionStatus' = h.connectionStatus
    /\ error' = h.error
    /\ sockets' = h.sockets
    /\ timers' = h.timers
    /\ dataChanged' = h.dataChanged

One(x) == SetToBag({x})

Socket(st, u, cur) == [readyState |-> st, url |-> u, current |-> cur]
Timer(u, r) == [url |-> u, ref |-> r]

\* The sockets of bag ss that are not closed.
Live(ss) == BagOfAll(LAMBDA s : s, [s \in {x \in BagToSet(ss) : x.readyState # "CLOSED"} |-> ss[s]])
LiveCount(ss) == BagCardinality(Live(ss))

\* ws.current = <new socket>: the socket ws.current referred to is no longer
\* referred to by the hook (its handlers stay attached to it).
Unreference(ss) ==
    BagOfAll(LAMBDA s : [s EXCEPT !.current = FALSE], Live(ss))
    (+) [s \in {x \in BagToSet(ss) : x.readyState = "CLOSED" /\ ~x.current} |-> ss[s]]

\* reconnectTimeoutRef.current = <new id>: the timeout it held is no longer held.
Unref(ts) == BagOfAll(LAMBDA t : [t EXCEPT !.ref = FALSE], ts)

\* new WebSocket(u) throws.
NewWebSocketThrows(u) == u \in BadUrls

\* connect() without its first statement, setConnectionStatus('connecting').
connect_NoConnecting(h, u) ==
    LET h1 == [h EXCEPT !.error = NoError]
    IN IF NewWebSocketThrows(u)
       THEN [h1 EXCEPT !.error = "Failed to connect",
                       !.connectionStatus = "disconnected"]
       ELSE [h1 EXCEPT !.sockets = Unreference(@) (+) One(Socket("CONNECTING", u, TRUE))]

\* connect(), as defined by a render whose url is u.
connect(h, u) ==
    LET h1 == [h EXCEPT !.connectionStatus = "connecting", !.error = NoError]
    IN IF NewWebSocketThrows(u)
       THEN [h1 EXCEPT !.error = "Failed to connect",
                       !.connectionStatus = "disconnected"]
       ELSE [h1 EXCEPT !.sockets = Unreference(@) (+) One(Socket("CONNECTING", u, TRUE))]

\* ws.onopen without setError(null).
onopen_KeepsError(h) == [h EXCEPT !.connectionStatus = "connected"]

\* ws.onopen
onopen(h) == [h EXCEPT !.connectionStatus = "connected", !.error = NoError]

\* ws.onmessage whose catch branch also drops the reading: setData(null).
onmessage_DropsReading(h, p) ==
    LET r == JSONparse(p)
    IN IF r.ok
       THEN [h EXCEPT !.data = r.value,
                      !.dataChanged = @ \/ r.value # Null \/ h.data # Null]
       ELSE [h EXCEPT !.error = "Invalid data format received",
                      !.data = Null,
                      !.dataChanged = @ \/ h.data # Null]

\* ws.onmessage that also clears the error on a successful decode.
onmessage_ClearsError(h, p) ==
    LET r == JSONparse(p)
    IN IF r.ok
       THEN [h EXCEPT !.data = r.value,
                      !.error = NoError,
                      !.dataChanged = @ \/ r.value # Null \/ h.data # Null]
       ELSE [h EXCEPT !.error = "Invalid data format received"]

\* ws.onmessage
onmessage(h, p) ==
    LET r == JSONparse(p)
    IN IF r.ok
       THEN [h EXCEPT !.data = r.value,
                      \* a parsed object is a new object; null is identical to null
                      !.dataChanged = @ \/ r.value # Null \/ h.data # Null]
       ELSE [h EXCEPT !.error = "Invalid data format received"]

\* ws.onclose that sets the timeout twice.
onclose_TwoTimeouts(h, u) ==
    [h EXCEPT !.connectionStatus = "disconnected",
              !.timers = Unref(@) (+) One(Timer(u, FALSE)) (+) One(Timer(u, TRUE))]

\* ws.onclose of a socket created by connect() of a render whose url is u.
onclose(h, u) ==
    [h EXCEPT !.connectionStatus = "disconnected",
              !.timers = Unref(@) (+) One(Timer(u, TRUE))]

\* ws.onerror without setError('Connection error').
onerror_NoError(h) == [h EXCEPT !.connectionStatus = "disconnected"]

\* ws.onerror
onerror(h) == [h EXCEPT !.error = "Connection error",
                        !.connectionStatus = "disconnected"]

\* WebSocket.close() on socket s: starts closing it if it is connecting or open.
close(s) ==
    IF s.readyState \in {"CONNECTING", "OPEN"}
    THEN [s EXCEPT !.readyState = "CLOSING"]
    ELSE s

\* clearTimeout(reconnectTimeoutRef.current): the timeout whose id the ref
\* holds, if it is still pending, is cancelled.
clearTimeout(ts) == [t \in {x \in BagToSet(ts) : ~x.ref} |-> ts[t]]

\* ws.current.close(), when ws.current is not null.
closeCurrent(ss) == BagOfAll(LAMBDA s : IF s.current THEN close(s) ELSE s, ss)

\* The cleanup function of the effect.
cleanup(h) == [h EXCEPT !.timers = clearTimeout(@), !.sockets = closeCurrent(@)]

\* The ready state of socket s changes to st.
SetReadyState(ss, s, st) ==
    (ss (-) One(s))
    (+) (IF st = "CLOSED" /\ ~s.current THEN EmptyBag
         ELSE One([s EXCEPT !.readyState = st]))

(***************************************************************************)
(* Actions. The event loop runs one callback at a time, so each handler    *)
(* is one step. The user acts through the view (url change, unmount, the   *)
(* Reconnect button); the browser delivers socket events and fires         *)
(* timeouts. A connection that fails delivers its error event and its      *)
(* close event one after the other with nothing in between, so the two     *)
(* handlers run in one step. After unmount the state variables hold the    *)
(* values last passed to the setters.                                      *)
(***************************************************************************)
MonitorUnchanged == UNCHANGED <<ecgHistory, alerts>>

\* The history view and the predictor are separate components: the hook and
\* the monitor view do not touch their state.
NoCell == [className |-> "", text |-> ""]
OtherViewsUnchanged ==
    UNCHANGED <<statusCell, autoAnalyze, predictions, isLoading, predictorError, calls>>
OtherViewsInit ==
    /\ statusCell = NoCell
    /\ autoAnalyze = FALSE
    /\ predictions = <<>>
    /\ isLoading = FALSE
    /\ predictorError = NoError
    /\ calls = <<>>

Event(op, arg) == [op |-> op, arg |-> arg]

CanCreate(u) == NewWebSocketThrows(u) \/ LiveCount(sockets) < MaxSockets
CanSetTimeout == BagCardinality(timers) < MaxTimers

\* The effect runs after the first render: connect().
Mount ==
    /\ phase = "init"
    /\ CanCreate(url)
    /\ SetHook(connect(Hook, url))
    /\ phase' = "mounted"
    /\ lastEvent' = Event("mount", "-")
    /\ OtherViewsUnchanged
    /\ UNCHANGED url
    /\ MonitorUnchanged

\* The url argument changes: cleanup of the old effect, then the effect again.
ChangeUrl(u) ==
    /\ phase = "mounted"
    /\ u # url
    /\ CanCreate(u)
    /\ SetHook(connect(cleanup(Hook), u))
    /\ url' = u
    /\ lastEvent' = Event("urlchange", "-")
    /\ OtherViewsUnchanged
    /\ UNCHANGED phase
    /\ MonitorUnchanged

\* The owning view unmounts: cleanup of the effect.
Unmount ==
    /\ phase = "mounted"
    /\ SetHook(cleanup(Hook))
    /\ phase' = "unmounted"
    /\ lastEvent' = Event("unmount", "-")
    /\ OtherViewsUnchanged
    /\ UNCHANGED url
    /\ MonitorUnchanged

\* The Reconnect button, rendered only while disconnected: reconnect().
Reconnect ==
    /\ phase = "mounted"
    /\ connectionStatus = "disconnected"
    /\ CanCreate(url)
    /\ SetHook(connect(Hook, url))
    /\ lastEvent' = Event("reconnect", "-")
    /\ OtherViewsUnchanged
    /\ UNCHANGED <<phase, url>>
    /\ MonitorUnchanged

\* Pending timeout t fires: connect() of the render that created the socket
\* whose close event set it.
TimerFire(t) ==
    /\ CanCreate(t.url)
    /\ SetHook(connect([Hook EXCEPT !.timers = @ (-) One(t)], t.url))
    /\ lastEvent' = Event("timer", "-")
    /\ OtherViewsUnchanged
    /\ UNCHANGED <<phase, url>>
    /\ MonitorUnchanged

\* The connection of socket s is established.
SocketOpen(s) ==
    /\ s.readyState = "CONNECTING"
    /\ SetHook(onopen([Hook EXCEPT !.sockets = SetReadyState(@, s, "OPEN")]))
    /\ lastEvent' = Event("open", "-")
    /\ OtherViewsUnchanged
    /\ UNCHANGED <<phase, url>>
    /\ MonitorUnchanged

\* A message with payload p arrives on socket s.
SocketMessage(s, p) ==
    /\ s.readyState = "OPEN"
    /\ JSONparse(p).value # Null => Len(ecgHistory) < MaxFeed
    /\ SetHook(onmessage(Hook, p))
    /\ lastEvent' = Event("message", p.text)
    /\ OtherViewsUnchanged
    /\ UNCHANGED <<phase, url>>
    /\ MonitorUnchanged

\* Socket s closes cleanly (by the peer, or after close()).
SocketClose(s) ==
    /\ s.readyState \in {"OPEN", "CLOSING"}
    /\ CanSetTimeout
    /\ SetHook(onclose([Hook EXCEPT !.sockets = SetReadyState(@, s, "CLOSED")], s.url))
    /\ lastEvent' = Event("close", "-")
    /\ OtherViewsUnchanged
    /\ UNCHANGED <<phase, url>>
    /\ MonitorUnchanged

\* The connection of socket s fails: an error event, then a close event.
SocketFail(s) ==
    /\ s.readyState \in {"CONNECTING", "OPEN", "CLOSING"}
    /\ CanSetTimeout
    /\ SetHook(onclose(onerror([Hook EXCEPT !.sockets = SetReadyState(@, s, "CLOSED")]),
                       s.url))
    /\ lastEvent' = Event("fail", "-")
    /\ OtherViewsUnchanged
    /\ UNCHANGED <<phase, url>>
    /\ MonitorUnchanged

\* slice(-51): keeps one entry too many.
slice_KeepsOneMore(h) == IF Len(h) > HistoryLimit + 1
                         THEN SubSeq(h, Len(h) - HistoryLimit, Len(h))
                         ELSE h

\* [...prev, newReading].slice(-50)
slice(h) == IF Len(h) > HistoryLimit
            THEN SubSeq(h, Len(h) - HistoryLimit + 1, Len(h))
            ELSE h

\* ECGMonitor's effect on [data], run after a render in which data changed.
MonitorEffect ==
    /\ phase = "mounted"
    /\ dataChanged
    /\ dataChanged' = FALSE
    /\ IF data # Null
       THEN /\ ecgHistory' = slice(Append(ecgHistory, data))
            /\ alerts' = analyzeHealthData(data)
       ELSE MonitorUnchanged
    /\ lastEvent' = Event("effect", "-")
    /\ OtherViewsUnchanged
    /\ UNCHANGED <<phase, url, data, connectionStatus, error, sockets, timers>>

Init ==
    /\ phase = "init"
    /\ url \in Urls
    /\ data = Null
    /\ connectionStatus = "disconnected"
    /\ error = NoError
    /\ sockets = EmptyBag
    /\ timers = EmptyBag
    /\ dataChanged = FALSE
    /\ ecgHistory = <<>>
    /\ alerts = <<>>
    /\ lastEvent = Event("none", "-")
    /\ OtherViewsInit

Next ==
    \/ Mount
    \/ \E u \in Urls : ChangeUrl(u)
    \/ Unmount
    \/ Reconnect
    \/ \E t \in BagToSet(timers) : TimerFire(t)
    \/ \E s \in BagToSet(sockets) : SocketOpen(s)
    \/ \E s \in BagToSet(sockets), p \in Payloads : SocketMessage(s, p)
    \/ \E s \in BagToSet(sockets) : SocketClose(s)
    \/ \E s \in BagToSet(sockets) : SocketFail(s)
    \/ MonitorEffect

Spec == Init /\ [][Next]_vars

(***************************************************************************)
(* Vocabulary of the properties.                                           *)
(***************************************************************************)
\* The operations that call connect().
ConnectOps == {"mount", "reconnect", "timer", "urlchange"}
\* The events that run ws.onclose.
CloseOps == {"close", "fail"}

\* Number of sockets of bag ss whose ready state is st.
CountState(ss, st) ==
    BagCardinality([s \in {x \in BagToSet(ss) : x.readyState = st} |-> ss[s]])

\* The step constructed a WebSocket: nothing else adds a socket that is not
\* closed.
Created == LiveCount(sockets') > LiveCount(sockets)

\* The socket ws.current refers to, as a set (empty while ws.current is null).
Current == {s \in BagToSet(sockets) : s.current}

(***************************************************************************)
(* C1. Once the hook is torn down (the effect's cleanup has run on         *)
(* unmount), connect() is never called again, so no new WebSocket is       *)
(* created after teardown.                                                 *)
(***************************************************************************)
C1_NoConnectAfterTeardown ==
    phase = "unmounted" => lastEvent.op \notin ConnectOps

(***************************************************************************)
(* C2. A manual reconnect cancels every pending auto-reconnect: right      *)
(* after reconnect() no timeout set by a close event is still pending.     *)
(***************************************************************************)
C2_ReconnectCancelsTimer ==
    lastEvent.op = "reconnect" => timers = EmptyBag

(***************************************************************************)
(* C3. A manual reconnect discards the connection the hook held: a socket  *)
(* that ws.current referred to and that was connecting or open does not    *)
(* live on, in that same ready state, after reconnect() has replaced it.   *)
(***************************************************************************)
C3_ReconnectDiscardsHeld ==
    [][lastEvent'.op = "reconnect" =>
         \A s \in Current :
            s.readyState \in {"CONNECTING", "OPEN"} =>
               CopiesIn([s EXCEPT !.current = FALSE], sockets')
                  <= CopiesIn([s EXCEPT !.current = FALSE], sockets)]_vars

(***************************************************************************)
(* C4. The hook owns a single live connection: at most one of the sockets  *)
(* it has created is connecting or open.                                   *)
(***************************************************************************)
C4_SingleLiveConnection ==
    CountState(sockets, "CONNECTING") + CountState(sockets, "OPEN") <= 1

(***************************************************************************)
(* C5. Every connection the hook opens targets the current url: after a    *)
(* connect() call that created a socket, the socket ws.current refers to   *)
(* has the url of the latest render.                                       *)
(***************************************************************************)
C5_ConnectsTargetCurrentUrl ==
    (lastEvent.op \in ConnectOps /\ connectionStatus = "connecting")
        => \A s \in Current : s.url = url

(***************************************************************************)
(* C6. A close event on a mounted hook sets the state to disconnected and  *)
(* schedules exactly one reconnect: one more timeout is pending and no     *)
(* WebSocket is constructed by the close event itself. A WebSocket is      *)
(* constructed only by a connect() call, and the connect() of a timeout    *)
(* happens when that timeout fires and consumes it.                        *)
(***************************************************************************)
C6_CloseSchedulesOneReconnect ==
    [][/\ (lastEvent'.op \in CloseOps /\ phase = "mounted") =>
            /\ connectionStatus' = "disconnected"
            /\ BagCardinality(timers') = BagCardinality(timers) + 1
            /\ ~Created
       /\ Created => lastEvent'.op \in ConnectOps
       /\ lastEvent'.op = "timer" =>
            /\ BagCardinality(timers') = BagCardinality(timers) - 1
            /\ Created]_vars

C6_Witness ==
    /\ lastEvent.op = "close"
    /\ phase = "mounted"
    /\ connectionStatus = "disconnected"
    /\ BagCardinality(timers) = 1

(***************************************************************************)
(* C7. The hook retries without end: whenever a mounted hook is            *)
(* disconnected, a new connection attempt eventually follows if timeouts   *)
(* fire. Timeouts are the only thing that makes an attempt without the     *)
(* user, so this says: whenever a mounted hook is disconnected, a          *)
(* reconnect timeout is pending.                                           *)
(***************************************************************************)
C7_DisconnectedHasRetryPending ==
    (phase = "mounted" /\ connectionStatus = "disconnected") => timers # EmptyBag

(***************************************************************************)
(* C8. A message whose payload fails to decode sets the error to the       *)
(* invalid-data-format message and leaves the latest reading, the          *)
(* connection state, the alerts and the rolling history unchanged, and     *)
(* makes no run of the monitor's effect due.                               *)
(***************************************************************************)
C8_DecodeFailureKeepsReading ==
    [][(lastEvent'.op = "message" /\ lastEvent'.arg = "garbage") =>
          /\ error' = "Invalid data format received"
          /\ data' = data
          /\ connectionStatus' = connectionStatus
          /\ alerts' = alerts
          /\ ecgHistory' = ecgHistory
          /\ dataChanged' = dataChanged]_vars

C8_Witness ==
    /\ lastEvent = Event("message", "garbage")
    /\ error = "Invalid data format received"
    /\ data # Null
    /\ ecgHistory = <<data>>
    /\ alerts = analyzeHealthData(data)
    /\ ~dataChanged

C10_OpenSetsConnected ==
    lastEvent.op = "open" => (connectionStatus = "connected" /\ error = NoError)

\* An open event of a replaced socket arrived while the socket the hook holds
\* is closed: before it the state was not connected.
C10_Witness ==
    /\ lastEvent.op = "open"
    /\ connectionStatus = "connected"
    /\ error = NoError
    /\ \E s \in Current : s.readyState = "CLOSED"

(***************************************************************************)
(* C11. Failures end in observable state, not in an exception: after a     *)
(* connect() call whose WebSocket constructor throws, the error is         *)
(* "Failed to connect" and the state disconnected; after a connection      *)
(* failure (error event, then close event) the error is "Connection        *)
(* error" and the state disconnected; after a message that fails to        *)
(* decode the error is "Invalid data format received".                     *)
(***************************************************************************)
C11_FailuresBecomeState ==
    /\ (lastEvent.op \in {"mount", "reconnect", "urlchange"} /\ NewWebSocketThrows(url)) =>
          (error = "Failed to connect" /\ connectionStatus = "disconnected")
    /\ lastEvent.op = "fail" =>
          (error = "Connection error" /\ connectionStatus = "disconnected")
    /\ lastEvent = Event("message", "garbage") =>
          error = "Invalid data format received"

C11_Witness ==
    /\ lastEvent.op = "fail"
    /\ phase = "mounted"
    /\ error = "Connection error"
    /\ connectionStatus = "disconnected"

(***************************************************************************)
(* The alert evaluator on its own: a reading has just been decoded on the  *)
(* open connection, and the monitor's effect evaluates it. The readings    *)
(* range over every bpm in 30..MaxBpm and every temperature in             *)
(* 36.0..MaxTemp/10, in tenths of a degree.                                *)
(***************************************************************************)
MaxBpm == 130
MaxTemp == 400

BpmValues == 30..MaxBpm
TempValues == 360..MaxTemp

InitAlerts ==
    /\ phase = "mounted"
    /\ url \in GoodUrls
    /\ data \in {Reading(b, t) : b \in BpmValues, t \in TempValues}
    /\ connectionStatus = "connected"
    /\ error = NoError
    /\ sockets = One(Socket("OPEN", url, TRUE))
    /\ timers = EmptyBag
    /\ dataChanged = TRUE
    /\ ecgHistory = <<>>
    /\ alerts = <<>>
    /\ lastEvent = Event("message", "json")
    /\ OtherViewsInit

NextAlerts == MonitorEffect

SpecAlerts == InitAlerts /\ [][NextAlerts]_vars

\* The monitor's effect has evaluated data: alerts holds the result.
Evaluated == lastEvent.op = "effect"

\* The alerts of sequence as whose type is ty, in order.
OfType(as, ty) == SelectSeq(as, LAMBDA a : a.type = ty)

(***************************************************************************)
(* C12. bpm > 120 gives exactly one tachycardia alert, of severity high;   *)
(* 100 < bpm <= 120 exactly one, of severity medium; bpm <= 100 none.      *)
(***************************************************************************)
C12_Tachycardia ==
    Evaluated =>
        LET t == OfType(alerts, "tachycardia")
        IN /\ data.bpm > 120 => t = <<Alert("tachycardia", "high")>>
           /\ (100 < data.bpm /\ data.bpm <= 120) => t = <<Alert("tachycardia", "medium")>>
           /\ data.bpm <= 100 => t = <<>>

C12_Witness ==
    /\ Evaluated
    /\ data.bpm = 120
    /\ OfType(alerts, "tachycardia") = <<Alert("tachycardia", "medium")>>

(***************************************************************************)
(* C13. bpm < 40 gives exactly one bradycardia alert, of severity high;    *)
(* 40 <= bpm < 60 exactly one, of severity medium; bpm >= 60 none; and a   *)
(* tachycardia and a bradycardia alert never appear together.              *)
(***************************************************************************)
C13_Bradycardia ==
    Evaluated =>
        LET b == OfType(alerts, "bradycardia")
        IN /\ data.bpm < 40 => b = <<Alert("bradycardia", "high")>>
           /\ (40 <= data.bpm /\ data.bpm < 60) => b = <<Alert("bradycardia", "medium")>>
           /\ data.bpm >= 60 => b = <<>>
           /\ b = <<>> \/ OfType(alerts, "tachycardia") = <<>>

C13_Witness ==
    /\ Evaluated
    /\ data.bpm = 40
    /\ OfType(alerts, "bradycardia") = <<Alert("bradycardia", "medium")>>

(***************************************************************************)
(* C14. temperature > 39.0 gives exactly one fever alert, of severity      *)
(* high; 37.5 < temperature <= 39.0 exactly one, of severity medium;       *)
(* temperature <= 37.5 none; whatever the bpm.                             *)
(***************************************************************************)
C14_Fever ==
    Evaluated =>
        LET f == OfType(alerts, "fever")
        IN /\ data.temperature > 390 => f = <<Alert("fever", "high")>>
           /\ (375 < data.temperature /\ data.temperature <= 390) =>
                 f = <<Alert("fever", "medium")>>
           /\ data.temperature <= 375 => f = <<>>

C14_Witness ==
    /\ Evaluated
    /\ data.temperature = 390
    /\ data.bpm > 120
    /\ OfType(alerts, "fever") = <<Alert("fever", "medium")>>

(***************************************************************************)
(* C15. The result is never empty, and it holds a normal alert if and only *)
(* if no tachycardia, bradycardia or fever rule triggered, and then it is  *)
(* exactly that one alert.                                                 *)
(***************************************************************************)
C15_NormalAlone ==
    Evaluated =>
        LET triggered == \/ data.bpm > 100
                         \/ data.bpm < 60
                         \/ data.temperature > 375
        IN /\ alerts # <<>>
           /\ (OfType(alerts, "normal") # <<>>) <=> ~triggered
           /\ (OfType(alerts, "normal") # <<>>) => alerts = <<Alert("normal", "low")>>

C15_Witness ==
    /\ Evaluated
    /\ data = Reading(70, 380)
    /\ OfType(alerts, "normal") = <<>>
    /\ alerts # <<>>

(***************************************************************************)
(* C16. Every reading with 60 <= bpm <= 100 and temperature <= 37.5 gives  *)
(* exactly one alert, of kind normal and severity low.                     *)
(***************************************************************************)
C16_NormalRange ==
    (Evaluated /\ 60 <= data.bpm /\ data.bpm <= 100 /\ data.temperature <= 375)
        => alerts = <<Alert("normal", "low")>>

C16_Witness ==
    /\ Evaluated
    /\ data = Reading(60, 375)
    /\ alerts = <<Alert("normal", "low")>>

(***************************************************************************)
(* C17. A result that holds a heart-rate alert and a fever alert holds     *)
(* exactly those two, the heart-rate alert first; bpm 130 with 38.0 gives  *)
(* [tachycardia high, fever medium], bpm 35 with 40.0 gives [bradycardia   *)
(* high, fever high].                                                      *)
(***************************************************************************)
C17_HeartRateBeforeFever ==
    Evaluated =>
        /\ ((data.bpm > 100 \/ data.bpm < 60) /\ data.temperature > 375) =>
              /\ Len(alerts) = 2
              /\ alerts[1].type \in {"tachycardia", "bradycardia"}
              /\ alerts[2].type = "fever"
        /\ data = Reading(130, 380) =>
              alerts = <<Alert("tachycardia", "high"), Alert("fever", "medium")>>
        /\ data = Reading(35, 400) =>
              alerts = <<Alert("bradycardia", "high"), Alert("fever", "high")>>

C17_Witness ==
    /\ Evaluated
    /\ data = Reading(35, 400)
    /\ alerts = <<Alert("bradycardia", "high"), Alert("fever", "high")>>

(***************************************************************************)
(* The rolling history on its own: the connection is open and the feed     *)
(* sends readings stamped 1, 2, ... in arrival order, each one after the   *)
(* view has rendered the one before (the monitor's effect has run).        *)
(***************************************************************************)
MaxArrivals == 52

TimedReading(b, t, n) ==
    [kind |-> "object", bpm |-> b, temperature |-> t, timestamp |-> n]

\* The n-th reading of the feed.
Arrival(n) == TimedReading(70, 365, n)

\* The stamp of the reading the feed sends next.
NextStamp == IF data = Null THEN 1 ELSE data.timestamp + 1

InitHistory ==
    /\ phase = "mounted"
    /\ url \in GoodUrls
    /\ data = Null
    /\ connectionStatus = "connected"
    /\ error = NoError
    /\ sockets = One(Socket("OPEN", url, TRUE))
    /\ timers = EmptyBag
    /\ dataChanged = FALSE
    /\ ecgHistory = <<>>
    /\ alerts = <<>>
    /\ lastEvent = Event("open", "-")
    /\ OtherViewsInit

\* The next reading of the feed arrives on socket s.
HistoryFeed(s) ==
    /\ s.readyState = "OPEN"
    /\ ~dataChanged
    /\ NextStamp <= MaxArrivals
    /\ SetHook(onmessage(Hook, [text |-> "json", value |-> Arrival(NextStamp)]))
    /\ lastEvent' = Event("message", "json")
    /\ OtherViewsUnchanged
    /\ UNCHANGED <<phase, url>>
    /\ MonitorUnchanged

NextHistory ==
    \/ \E s \in BagToSet(sockets) : HistoryFeed(s)
    \/ MonitorEffect

SpecHistory == InitHistory /\ [][NextHistory]_vars

Min(a, b) == IF a <= b THEN a ELSE b

(***************************************************************************)
(* C18. The rolling history holds at most 50 entries, and they are the     *)
(* most recent min(n, 50) of the n readings appended so far, in arrival    *)
(* order: once the view has rendered the n-th reading, the history is the  *)
(* readings n - min(n, 50) + 1 .. n.                                       *)
(***************************************************************************)
C18_RollingHistory ==
    /\ Len(ecgHistory) <= HistoryLimit
    /\ (~dataChanged /\ data # Null) =>
          LET n == data.timestamp
              k == Min(n, HistoryLimit)
          IN /\ Len(ecgHistory) = k
             /\ \A i \in 1..k : ecgHistory[i] = Arrival(n - k + i)

\* The 51st reading has been appended: the first is evicted, 2..51 remain.
C18_Witness ==
    /\ ~dataChanged
    /\ data = Arrival(HistoryLimit + 1)
    /\ Len(ecgHistory) = HistoryLimit
    /\ ecgHistory[1] = Arrival(2)
    /\ ecgHistory[HistoryLimit] = Arrival(HistoryLimit + 1)

(***************************************************************************)
(* C19. Every decoded reading is evaluated once and appended once: when    *)
(* the monitor's effect runs, the history's last entry becomes the         *)
(* reading in data and the alerts become its evaluation; and no decoded    *)
(* reading is skipped: a reading the view has not yet processed is not     *)
(* replaced in data by another reading before the effect has taken it.     *)
(***************************************************************************)
C19_EveryReadingAppendedOnce ==
    [][/\ (lastEvent'.op = "effect" /\ data # Null) =>
            /\ ecgHistory' # <<>>
            /\ ecgHistory'[Len(ecgHistory')] = data
            /\ Len(ecgHistory') <= Len(ecgHistory) + 1
            /\ alerts' = analyzeHealthData(data)
       /\ (phase = "mounted" /\ dataChanged /\ data # Null /\ data' # Null) =>
            data' = data]_vars

(***************************************************************************)
(* C20. The exposed state reflects the socket the hook holds: while        *)
(* mounted, the state is connected only if the socket ws.current refers    *)
(* to is open; and an open, close or error event of a socket that a later  *)
(* connect() has replaced (the held socket is untouched by the event)      *)
(* changes neither the state nor the error.                                *)
(***************************************************************************)
C20_StateReflectsHeldSocket ==
    [][/\ (phase' = "mounted" /\ connectionStatus' = "connected") =>
            \E s \in {x \in BagToSet(sockets') : x.current} : s.readyState = "OPEN"
       /\ (/\ lastEvent'.op \in CloseOps \cup {"open"}
           /\ {x \in BagToSet(sockets') : x.current} = Current) =>
            (connectionStatus' = connectionStatus /\ error' = error)]_vars

(***************************************************************************)
(* C21. Close events, error events, timer firings and connect calls leave  *)
(* the latest decoded reading unchanged, and with it the rolling history   *)
(* and the alerts; once a reading has been decoded, data is never reset to *)
(* null, and it changes only when a message is decoded successfully.       *)
(***************************************************************************)
C21_ReadingSurvivesReconnect ==
    [][/\ lastEvent'.op \in CloseOps \cup ConnectOps =>
            (data' = data /\ ecgHistory' = ecgHistory /\ alerts' = alerts)
       /\ data' # data => (lastEvent'.op = "message" /\ lastEvent'.arg = "json")
       /\ data # Null => data' # Null]_vars

(***************************************************************************)
(* C22. A successfully decoded message updates only the latest reading: it *)
(* leaves the error message and the connection state unchanged, so an      *)
(* error set by an earlier decode failure stays exposed until the next     *)
(* connect call or open event clears it.                                   *)
(***************************************************************************)
DecodeError == "Invalid data format received"

C22_DecodeErrorUntilCleared ==
    [][/\ (lastEvent'.op = "message" /\ lastEvent'.arg = "json") =>
            /\ error' = error
            /\ connectionStatus' = connectionStatus
            /\ sockets' = sockets
            /\ timers' = timers
       /\ (error = DecodeError /\ error' # DecodeError) =>
            lastEvent'.op \in ConnectOps \cup {"open"}]_vars

\* C22, amended: a successfully decoded message leaves the error message,
\* the connection state, the sockets and the timeouts unchanged; an error set
\* by a decode failure stays exposed until a connect call or an open event
\* clears it, or the error event of a failing connection replaces it with
\* 'Connection error'.
C22_DecodeKeepsError ==
    [][/\ (lastEvent'.op = "message" /\ lastEvent'.arg = "json") =>
            /\ error' = error
            /\ connectionStatus' = connectionStatus
            /\ sockets' = sockets
            /\ timers' = timers
       /\ (error = DecodeError /\ error' # DecodeError) =>
            \/ lastEvent'.op \in ConnectOps \cup {"open"}
            \/ lastEvent'.op = "fail" /\ error' = "Connection error"]_vars

\* A reading has just been decoded while the error of an earlier decode
\* failure is exposed.
C22_Witness ==
    /\ lastEvent = Event("message", "json")
    /\ data # Null
    /\ error = DecodeError

(***************************************************************************)
(* The history view's status classification, next to the alert evaluator.  *)
(* The history view renders one row per fetched reading; here it renders   *)
(* the row of the same reading the monitor view evaluates, so that the two *)
(* classifications can be compared reading by reading.                     *)
(***************************************************************************)
RedClass == "text-red-600 bg-red-50 dark:text-red-200 dark:bg-red-900"
GreenClass == "text-green-600 bg-green-50 dark:text-green-200 dark:bg-green-900"

\* Array.prototype.join(sep) on an array of strings.
RECURSIVE join(_, _)
join(a, sep) ==
    IF Len(a) = 0 THEN ""
    ELSE IF Len(a) = 1 THEN a[1]
    ELSE a[1] \o sep \o join(Tail(a), sep)

\* getHealthStatus with temperature > 37.0 for the fever label.
getHealthStatus_Fever37(reading) ==
    LET a1 == IF reading.bpm > 100 THEN <<"Tachycardia">> ELSE <<>>
        a2 == IF reading.bpm < 60 THEN Append(a1, "Bradycardia") ELSE a1
        a3 == IF reading.temperature > 370 THEN Append(a2, "Fever") ELSE a2
    IN IF Len(a3) > 0 THEN join(a3, ", ") ELSE "Normal"

\* getHealthStatus
getHealthStatus(reading) ==
    LET a1 == IF reading.bpm > 100 THEN <<"Tachycardia">> ELSE <<>>
        a2 == IF reading.bpm < 60 THEN Append(a1, "Bradycardia") ELSE a1
        a3 == IF reading.temperature > 375 THEN Append(a2, "Fever") ELSE a2
    IN IF Len(a3) > 0 THEN join(a3, ", ") ELSE "Normal"

\* getStatusColor
getStatusColor(reading) ==
    IF reading.bpm > 100 \/ reading.bpm < 60 \/ reading.temperature > 375
    THEN RedClass
    ELSE GreenClass

\* The table row of the reading is rendered: its Status cell.
HistoryRow ==
    /\ statusCell = NoCell
    /\ data # Null
    /\ statusCell' = [className |-> getStatusColor(data), text |-> getHealthStatus(data)]
    /\ lastEvent' = Event("row", "-")
    /\ UNCHANGED <<phase, url, data, connectionStatus, error, sockets, timers,
                   dataChanged, ecgHistory, alerts,
                   autoAnalyze, predictions, isLoading, predictorError, calls>>

InitStatus == InitAlerts

NextStatus ==
    \/ MonitorEffect
    \/ HistoryRow

SpecStatus == InitStatus /\ [][NextStatus]_vars

\* The label the history view uses for an alert type.
Label(type) ==
    CASE type = "tachycardia" -> "Tachycardia"
      [] type = "bradycardia" -> "Bradycardia"
      [] type = "fever" -> "Fever"
      [] OTHER -> "Normal"

\* Both views have classified the reading.
Classified == ~dataChanged /\ statusCell # NoCell

(***************************************************************************)
(* C23. For every reading, the history view's status is 'Normal' exactly   *)
(* when the alert evaluator returns the single normal alert; otherwise its *)
(* labels are the types of the evaluator's alerts, in the same order; and  *)
(* the status colour is the red class exactly when the status is not       *)
(* 'Normal'.                                                               *)
(***************************************************************************)
C23_StatusAgreesWithAlerts ==
    Classified =>
        /\ statusCell.text = "Normal" <=> alerts = <<Alert("normal", "low")>>
        /\ statusCell.text # "Normal" =>
              statusCell.text = join([i \in 1..Len(alerts) |-> Label(alerts[i].type)], ", ")
        /\ statusCell.className = RedClass <=> statusCell.text # "Normal"
        /\ statusCell.className \in {RedClass, GreenClass}

\* A reading with two findings has been classified by both views.
C23_Witness ==
    /\ Classified
    /\ statusCell.text = "Tachycardia, Fever"
    /\ Len(alerts) = 2

(***************************************************************************)
(* The predictor: GeminiPredictor's list of predictions. handleAnalyze     *)
(* runs up to its await in one step; the continuation after the await      *)
(* (try or catch branch, then finally) runs in one step when the API call  *)
(* settles. Calls settle in any order. An entry's id is made of the clock  *)
(* value Date.now() returned, which never decreases and has millisecond    *)
(* resolution: two calls can read the same value. Each entry also carries  *)
(* the index of the call that created it (call, a history field).          *)
(***************************************************************************)
\* handleAnalyze calls in a run of the model.
MaxCalls == 6
\* Calls in a run that read the same clock value as the call before them.
MaxSameMs == 1

\* slice(0, 5)
MaxPredictions == 5

\* Texts the API call resolves with.
ApiTexts == {"assessment"}
\* The message of the Error generateHealthPrediction throws.
ApiErrorMessage == "Failed to generate health prediction. Please check your API configuration."

newPrediction(id, k) ==
    [id |-> id, prediction |-> "", isLoading |-> TRUE, error |-> NoError, call |-> k]

\* prev => [newPrediction, ...prev].slice(0, 5)
addPrediction(prev, p) ==
    LET l == <<p>> \o prev
    IN IF Len(l) > MaxPredictions THEN SubSeq(l, 1, MaxPredictions) ELSE l

\* The try branch's update that ignores the id and updates every entry.
setResolved_AllEntries(prev, predictionId, prediction) ==
    [i \in 1..Len(prev) |-> [prev[i] EXCEPT !.prediction = prediction, !.isLoading = FALSE]]

\* prev => prev.map(p => p.id === predictionId ? {...p, prediction, isLoading: false} : p)
setResolved(prev, predictionId, prediction) ==
    [i \in 1..Len(prev) |->
        IF prev[i].id = predictionId
        THEN [prev[i] EXCEPT !.prediction = prediction, !.isLoading = FALSE]
        ELSE prev[i]]

\* prev => prev.map(p => p.id === predictionId ? {...p, error: errorMessage, isLoading: false} : p)
setRejected(prev, predictionId, errorMessage) ==
    [i \in 1..Len(prev) |->
        IF prev[i].id = predictionId
        THEN [prev[i] EXCEPT !.error = errorMessage, !.isLoading = FALSE]
        ELSE prev[i]]

\* The values Date.now() can return at the next call: the value the last
\* call read, or a later one.
DateNow ==
    IF calls = <<>> THEN {1}
    ELSE LET last == calls[Len(calls)].id
             \* ids start at 1 and grow by 0 or 1: the calls so far that read
             \* the value of the call before them
             same == Len(calls) - last
         IN IF same < MaxSameMs THEN {last, last + 1} ELSE {last + 1}

HookUnchanged ==
    UNCHANGED <<phase, url, data, connectionStatus, error, sockets, timers,
                dataChanged, ecgHistory, alerts, statusCell>>

\* handleAnalyze(reading) up to the await, with Date.now() = now.
handleAnalyze(now, how) ==
    /\ Len(calls) < MaxCalls
    /\ isLoading' = TRUE
    /\ predictorError' = NoError
    /\ predictions' = addPrediction(predictions, newPrediction(now, Len(calls) + 1))
    /\ calls' = Append(calls, [id |-> now, state |-> "pending", text |-> ""])
    /\ lastEvent' = Event("analyze", how)
    /\ UNCHANGED autoAnalyze
    /\ HookUnchanged

\* The Analyze button: rendered while there is a reading, disabled while loading.
AnalyzeClick ==
    /\ data # Null
    /\ ~isLoading
    /\ \E now \in DateNow : handleAnalyze(now, "click")

\* A new reading arrives while autoAnalyze is set: the effect calls handleAnalyze.
AutoAnalyze ==
    /\ autoAnalyze
    /\ data # Null
    /\ \E now \in DateNow : handleAnalyze(now, "auto")

\* The API call of call k resolves: try branch, then finally.
ApiResolve(k, text) ==
    /\ calls[k].state = "pending"
    /\ predictions' = setResolved(predictions, calls[k].id, text)
    /\ isLoading' = FALSE
    /\ calls' = [calls EXCEPT ![k] = [@ EXCEPT !.state = "resolved", !.text = text]]
    /\ lastEvent' = Event("resolve", "-")
    /\ UNCHANGED <<autoAnalyze, predictorError>>
    /\ HookUnchanged

\* The API call of call k rejects: catch branch, then finally.
ApiReject(k) ==
    /\ calls[k].state = "pending"
    /\ predictorError' = ApiErrorMessage
    /\ predictions' = setRejected(predictions, calls[k].id, ApiErrorMessage)
    /\ isLoading' = FALSE
    /\ calls' = [calls EXCEPT ![k] = [@ EXCEPT !.state = "rejected", !.text = ApiErrorMessage]]
    /\ lastEvent' = Event("reject", "-")
    /\ UNCHANGED autoAnalyze
    /\ HookUnchanged

InitPredictor ==
    /\ phase = "mounted"
    /\ url = "wss://a"
    /\ data = Reading(70, 365)
    /\ connectionStatus = "connected"
    /\ error = NoError
    /\ sockets = One(Socket("OPEN", url, TRUE))
    /\ timers = EmptyBag
    /\ dataChanged = FALSE
    /\ ecgHistory = <<>>
    /\ alerts = <<>>
    /\ lastEvent = Event("message", "json")
    /\ statusCell = NoCell
    /\ autoAnalyze \in BOOLEAN
    /\ predictions = <<>>
    /\ isLoading = FALSE
    /\ predictorError = NoError
    /\ calls = <<>>

NextPredictor ==
    \/ AnalyzeClick
    \/ AutoAnalyze
    \/ \E k \in 1..Len(calls), text \in ApiTexts : ApiResolve(k, text)
    \/ \E k \in 1..Len(calls) : ApiReject(k)

SpecPredictor == InitPredictor /\ [][NextPredictor]_vars

\* The call whose API call settles in this step, as a set.
Settling == {k \in 1..Len(calls) : calls[k].state = "pending" /\ calls'[k].state # "pending"}

\* What identifies an entry: its id and the call that created it.
Identity(p) == <<p.id, p.call>>

(***************************************************************************)
(* C24. After any sequence of analyze requests and API completions, in any *)
(* order: the list holds at most 5 predictions, newest first; a completion *)
(* updates only the entries with its own id and changes nothing when no    *)
(* entry with that id is in the list any more; and every entry in the list *)
(* whose API call has resolved or rejected has isLoading false and a       *)
(* prediction text or an error.                                            *)
(***************************************************************************)
C24_PredictionList ==
    [][/\ Len(predictions') <= 5
       /\ \A i, j \in 1..Len(predictions') :
             i < j => predictions'[i].call > predictions'[j].call
       /\ \A k \in Settling :
             /\ Len(predictions') = Len(predictions)
             /\ \A i \in 1..Len(predictions) :
                   /\ Identity(predictions'[i]) = Identity(predictions[i])
                   /\ predictions[i].id # calls[k].id => predictions'[i] = predictions[i]
             /\ (\A i \in 1..Len(predictions) : predictions[i].id # calls[k].id) =>
                   predictions' = predictions
       /\ \A i \in 1..Len(predictions') :
             calls'[predictions'[i].call].state # "pending" =>
                 /\ ~predictions'[i].isLoading
                 /\ predictions'[i].prediction # "" \/ predictions'[i].error # NoError]_vars

\* The first call has just settled after five later calls evicted its entry:
\* it is the only settled call, and the five listed entries are still loading.
C24_Witness ==
    /\ Len(calls) = 6
    /\ Len(predictions) = 5
    /\ lastEvent.op \in {"resolve", "reject"}
    /\ calls[1].state # "pending"
    /\ \A k \in 2..6 : calls[k].state = "pending"
    /\ \A i \in 1..5 : predictions[i].isLoading /\ predictions[i].id # calls[1].id

====
